---- MODULE Spec2Model ----
(***************************************************************************)
(* Model of the libnop table codec (include/nop/base/table.h) and of the   *)
(* status type (include/nop/status.h).                                     *)
(*                                                                         *)
(* A table is a record of Entry<T, Id> slots.  Serializing writes the      *)
(* table prefix, the hash of the table name, the number of non-empty       *)
(* active entries and then one sized binary container per non-empty active *)
(* entry.  Deserializing clears the destination, checks the hash, reads    *)
(* the count and resolves every wire entry by id against the entry list.   *)
(*                                                                         *)
(* The byte sink and source, the integer and value encodings, the bounded  *)
(* reader/writer and the hash primitive are collaborators of table.h that  *)
(* live in other headers; they are modelled from their documented          *)
(* contracts.                                                              *)
(***************************************************************************)
EXTENDS Integers, Sequences, FiniteSets, TLC

(***************************************************************************)
(* Bounds of the model.                                                    *)
(***************************************************************************)
\* Entry ids range over 0..MaxId.
MaxId == 1
\* Entry payloads range over 0..MaxValue (0 is the default-constructed T{}).
MaxValue == 1
\* A value encoding overestimates its size by 0..MaxOver bytes.
MaxOver == 1
\* The count field of a stream supplied by the environment is 0..MaxCount.
MaxCount == 2

(***************************************************************************)
(* enum class ErrorStatus (status.h).                                      *)
(***************************************************************************)
None == 0
UnexpectedEncodingType == 1
UnexpectedHandleType == 2
UnexpectedVariantType == 3
InvalidContainerLength == 4
InvalidMemberCount == 5
InvalidStringLength == 6
InvalidTableHash == 7
InvalidHandleReference == 8
InvalidInterfaceMethod == 9
DuplicateTableEntry == 10
ReadLimitReached == 11
WriteLimitReached == 12
StreamError == 13
ProtocolError == 14
IOError == 15
SystemError == 16

\* The named members of the enumeration.
ErrorStatusMembers == None..SystemError

\* The errno constant the table code passes to ErrorStatus(...).
EPROTO == 71

\* ErrorStatus(x): a function-style cast of an integer to the enumeration;
\* the value is kept as it is, whether or not a member has it.
ErrorStatusCast(x) == x

\* Status<T>::GetErrorMessage.
GetErrorMessage(error) ==
  CASE error = None -> "No Error"
    [] error = UnexpectedEncodingType -> "Unexpected Encoding Type"
    [] error = UnexpectedHandleType -> "Unexpected Handle Type"
    [] error = UnexpectedVariantType -> "Unexpected Variant Type"
    [] error = InvalidContainerLength -> "Invalid Container Length"
    [] error = InvalidMemberCount -> "Invalid Member Count"
    [] error = InvalidStringLength -> "Invalid String Length"
    [] error = InvalidTableHash -> "Invalid Table Hash"
    [] error = InvalidHandleReference -> "Invalid Handle Reference"
    [] error = InvalidInterfaceMethod -> "Invalid Interface Method"
    [] error = DuplicateTableEntry -> "Duplicate Table Hash"
    [] error = ReadLimitReached -> "Read Limit Reached"
    [] error = WriteLimitReached -> "Write Limit Reached"
    [] error = StreamError -> "Stream Error"
    [] error = ProtocolError -> "Protocol Error"
    [] error = IOError -> "IO Error"
    [] error = SystemError -> "System Error"
    [] OTHER -> "Unknown Error"

(***************************************************************************)
(* Collaborators: encoding bytes, integer encoding, hash, value encoding.  *)
(***************************************************************************)
\* EncodingByte::Table and EncodingByte::Binary.
TableByte == 181
BinaryByte == 188
\* The prefix byte of the value encoding of the entry payload type T.
ValueByte == 128
\* The byte BoundedWriter::WritePadding emits.
PadByte == 0
\* Width of the integer encoding of ids, hashes, counts and sizes.
U64Bytes == 8

RECURSIVE LittleEndian(_, _)
LittleEndian(v, n) ==
  IF n = 0 THEN <<>> ELSE <<v % 256>> \o LittleEndian(v \div 256, n - 1)

RECURSIVE FromLittleEndian(_)
FromLittleEndian(bytes) ==
  IF bytes = <<>> THEN 0 ELSE Head(bytes) + 256 * FromLittleEndian(Tail(bytes))

\* Encoding<std::uint64_t>: Size and the bytes Write emits.
U64Size(v) == U64Bytes
U64Encode(v) == LittleEndian(v, U64Bytes)

\* The table names of the model: the name a table was first declared with
\* and the name of a later version that broke rule 4 and changed it; and
\* SipHash::Compute(name, key0, key1).
Names == {"MyTable", "MyTableV2"}
SipHashCompute(name) == IF name = "MyTable" THEN 74565 ELSE 1193046

\* The payload type of the entry with a given id: its encoding reports
\* TypeOver(id) bytes more than it writes.
TypeOver(id) == id % (MaxOver + 1)
\* Encoding<T>::Size and the bytes Encoding<T>::Write emits.
ValueEncode(v) == <<ValueByte, v>>
ValueSize(id, v) == Len(ValueEncode(v)) + TypeOver(id)

(***************************************************************************)
(* Entries, entry lists and tables.                                        *)
(***************************************************************************)
Ids == 0..MaxId
Values == 0..MaxValue
Active == "ActiveEntry"
Deleted == "DeletedEntry"

\* Entry<T, Id, ActiveEntry | DeletedEntry> as a descriptor.
EntryTypes == [Id : Ids, tag : {Active, Deleted}]

\* SameEntryId that tells entries apart by their tag as well.
SameEntryIdAndTag(A, B) == A.Id = B.Id /\ A.tag = B.tag

\* SameEntryId<A, B>: whether two entry types have the same id.
SameEntryId(A, B) == A.Id = B.Id

\* IsUnique<SameEntryId, ...>: no two entries of the list are the same by
\* SameEntryId.
IsUnique(entries) ==
  \A i, j \in 1..Len(entries) :
    SameEntryId(entries[i], entries[j]) => i = j

\* The entry lists a program may hand to NOP_TABLE: any entry types, up to
\* one more than there are ids.
Declarations ==
  UNION { [1..n -> EntryTypes] : n \in 0..(MaxId + 2) }

\* The entry lists NOP_TABLE accepts.
EntryLists ==
  { e \in UNION { [1..n -> EntryTypes] : n \in 0..(MaxId + 1) } : IsUnique(e) }

\* A table type: its name (hashed by NOP_TABLE) and its entry list.
Schemas == [name : Names, entries : EntryLists]
NoSchema == [name |-> "", entries |-> <<>>]
Hash(schema) == SipHashCompute(schema.name)
Count(schema) == Len(schema.entries)

\* An Optional<T>: <<>> when empty, <<v>> when it holds v.  A deleted entry
\* is always empty.
SlotValues(entry) ==
  IF entry.tag = Active THEN {<<>>} \cup { <<v>> : v \in Values } ELSE {<<>>}

\* The values a table of the schema can hold.
Tables(schema) ==
  { t \in [1..Count(schema) -> {<<>>} \cup { <<v>> : v \in Values }] :
      \A i \in 1..Count(schema) : t[i] \in SlotValues(schema.entries[i]) }

\* Entry::empty() / operator bool.
Empty(slot) == slot = <<>>

(***************************************************************************)
(* The byte sink (Writer) and BoundedWriter.                               *)
(***************************************************************************)
\* A writer: the bytes it has taken, the bytes it still accepts before it
\* fails, and the status of its last call.
NewWriter(out, room) == [out |-> out, room |-> room, st |-> None]

\* Writer::Write of one call's bytes: all of them or, when the sink has no
\* room for them, none and a stream error.
WriterWrite(w, bytes) ==
  IF Len(bytes) <= w.room
    THEN [out |-> w.out \o bytes, room |-> w.room - Len(bytes), st |-> None]
    ELSE [w EXCEPT !.st = StreamError]

\* Encoding<std::uint64_t>::Write.
U64Write(v, w) == WriterWrite(w, U64Encode(v))

\* BoundedWriter<Writer>{writer, size}.
NewBoundedWriter(w, size) == [w |-> w, size |-> size, index |-> 0]

\* BoundedWriter::Write: refuses to go past size, else forwards.
BoundedWrite(bw, bytes) ==
  IF bw.index + Len(bytes) > bw.size
    THEN [bw EXCEPT !.w.st = WriteLimitReached]
    ELSE LET w2 == WriterWrite(bw.w, bytes) IN
         IF w2.st # None
           THEN [bw EXCEPT !.w = w2]
           ELSE [bw EXCEPT !.w = w2, !.index = @ + Len(bytes)]

\* BoundedWriter::WritePadding: fills the region up to size.
WritePadding(bw) ==
  LET pad == [i \in 1..(bw.size - bw.index) |-> PadByte]
      w2 == WriterWrite(bw.w, pad) IN
  IF w2.st # None
    THEN [bw EXCEPT !.w = w2]
    ELSE [bw EXCEPT !.w = w2, !.index = bw.size]

\* Encoding<T>::Write: the prefix byte, then the payload byte.
ValueWrite(v, bw) ==
  LET b1 == BoundedWrite(bw, <<ValueEncode(v)[1]>>) IN
  IF b1.w.st # None THEN b1 ELSE BoundedWrite(b1, <<ValueEncode(v)[2]>>)

(***************************************************************************)
(* The byte source (Reader) and BoundedReader.                             *)
(***************************************************************************)
\* A reader over the bytes buf: pos bytes consumed, status of its last call.
NewReader(buf) == [buf |-> buf, pos |-> 0, st |-> None]

\* Reader::Read of n bytes: all of them or, when the source has fewer left,
\* none and a stream error.
ReaderRead(r, n) ==
  IF r.pos + n <= Len(r.buf)
    THEN [r |-> [r EXCEPT !.pos = @ + n, !.st = None],
          bytes |-> SubSeq(r.buf, r.pos + 1, r.pos + n)]
    ELSE [r |-> [r EXCEPT !.st = StreamError], bytes |-> <<>>]

\* Reader::Skip.
ReaderSkip(r, n) == ReaderRead(r, n).r

\* Encoding<std::uint64_t>::Read.
U64Read(r) ==
  LET x == ReaderRead(r, U64Bytes) IN
  [r |-> x.r, v |-> IF x.r.st = None THEN FromLittleEndian(x.bytes) ELSE 0]

\* BoundedReader<Reader>{reader, size}.
NewBoundedReader(r, size) == [r |-> r, size |-> size, index |-> 0]

\* BoundedReader::Read: refuses to go past size, else forwards.
BoundedRead(br, n) ==
  IF br.index + n > br.size
    THEN [br |-> [br EXCEPT !.r.st = ReadLimitReached], bytes |-> <<>>]
    ELSE LET x == ReaderRead(br.r, n) IN
         IF x.r.st # None
           THEN [br |-> [br EXCEPT !.r = x.r], bytes |-> <<>>]
           ELSE [br |-> [br EXCEPT !.r = x.r, !.index = @ + n],
                 bytes |-> x.bytes]

\* BoundedReader::ReadPadding: skips what is left of the region.
ReadPadding(br) ==
  LET r2 == ReaderSkip(br.r, br.size - br.index) IN
  IF r2.st # None
    THEN [br EXCEPT !.r = r2]
    ELSE [br EXCEPT !.r = r2, !.index = br.size]

\* Encoding<T>::Read into an entry that holds old: the prefix byte, which
\* must be the one of T, then the payload byte.
ValueRead(old, br) ==
  LET x == BoundedRead(br, 1) IN
  IF x.br.r.st # None THEN [br |-> x.br, v |-> old]
  ELSE IF x.bytes[1] # ValueByte
    THEN [br |-> [x.br EXCEPT !.r.st = UnexpectedEncodingType], v |-> old]
  ELSE LET y == BoundedRead(x.br, 1) IN
       IF y.br.r.st # None THEN [br |-> y.br, v |-> old]
       ELSE [br |-> y.br, v |-> y.bytes[1]]

(***************************************************************************)
(* Encoding<Table>: the private helpers of table.h.                        *)
(***************************************************************************)
\* The bounded region an entry operation opened: whether it opened one, the
\* size it was opened with, the bytes the value encoding moved inside it
\* and the bytes moved inside it when the operation returned.
NoRegion == [open |-> FALSE, size |-> 0, value |-> 0, index |-> 0]
Region(size, value, index) ==
  [open |-> TRUE, size |-> size, value |-> value, index |-> index]

\* ActiveEntryCount that counts every entry, empty or not.
ActiveEntryCountAll(table, index) == index

\* ActiveEntryCount(value, Index<index>).
RECURSIVE ActiveEntryCount(_, _)
ActiveEntryCount(table, index) ==
  IF index = 0 THEN 0
  ELSE ActiveEntryCount(table, index - 1) +
       (IF ~Empty(table[index]) THEN 1 ELSE 0)

\* BaseEncodingSize(prefix): the bytes the prefix of an encoding takes.
BaseEncodingSize(prefix) == Len(<<prefix>>)

\* Size of an active entry that also counts the prefix byte and the size
\* field WriteEntry puts between the id and the value.
SizeActiveEntryFramed(id, slot) ==
  IF ~Empty(slot)
    THEN U64Size(id) + BaseEncodingSize(BinaryByte) +
         U64Size(ValueSize(id, slot[1])) + ValueSize(id, slot[1])
    ELSE 0

\* Size(const Entry<T, Id, ActiveEntry>&).
SizeActiveEntry(id, slot) ==
  IF ~Empty(slot) THEN U64Size(id) + ValueSize(id, slot[1]) ELSE 0

\* Size(const Entry<T, Id, DeletedEntry>&).
SizeDeletedEntry == 0

\* Size of an entry, by the tag of the entry type.
SizeEntry(entry, slot) ==
  IF entry.tag = Active THEN SizeActiveEntry(entry.Id, slot)
  ELSE SizeDeletedEntry

\* Size(value, Index<index>).
RECURSIVE SizeIndex(_, _, _)
SizeIndex(schema, table, index) ==
  IF index = 0 THEN 0
  ELSE SizeIndex(schema, table, index - 1) +
       SizeEntry(schema.entries[index], table[index])

\* Encoding<Table>::Size(value).
Size(schema, table) ==
  BaseEncodingSize(TableByte) + U64Size(Hash(schema)) +
  U64Size(ActiveEntryCount(table, Count(schema))) +
  SizeIndex(schema, table, Count(schema))

\* ClearEntries with the clear() calls left out.
ClearEntriesNone(table) == table

\* Optional<T>::clear() of an active entry and Entry<T, Id,
\* DeletedEntry>::clear(): the entry is empty afterwards.
Clear(slot) == <<>>

\* ClearEntries(value, Index<Count>): clear() on every entry.
ClearEntries(table) == [i \in DOMAIN table |-> Clear(table[i])]

\* WriteEntry that returns after Encoding<T>::Write, without WritePadding.
WriteActiveEntryNoPadding(id, slot, w) ==
  IF ~Empty(slot) THEN
    LET w1 == U64Write(id, w) IN
    IF w1.st # None THEN [w |-> w1, region |-> NoRegion] ELSE
    LET w2 == WriterWrite(w1, <<BinaryByte>>) IN
    IF w2.st # None THEN [w |-> w2, region |-> NoRegion] ELSE
    LET size == ValueSize(id, slot[1])
        w3 == U64Write(size, w2) IN
    IF w3.st # None THEN [w |-> w3, region |-> NoRegion] ELSE
    LET bw1 == ValueWrite(slot[1], NewBoundedWriter(w3, size)) IN
    [w |-> bw1.w, region |-> Region(size, bw1.index, bw1.index)]
  ELSE [w |-> [w EXCEPT !.st = None], region |-> NoRegion]

\* WriteEntry(const Entry<T, Id, ActiveEntry>&, writer).
WriteActiveEntry(id, slot, w) ==
  IF ~Empty(slot) THEN
    LET w1 == U64Write(id, w) IN
    IF w1.st # None THEN [w |-> w1, region |-> NoRegion] ELSE
    LET w2 == WriterWrite(w1, <<BinaryByte>>) IN
    IF w2.st # None THEN [w |-> w2, region |-> NoRegion] ELSE
    LET size == ValueSize(id, slot[1])
        w3 == U64Write(size, w2) IN
    IF w3.st # None THEN [w |-> w3, region |-> NoRegion] ELSE
    LET bw0 == NewBoundedWriter(w3, size)
        bw1 == ValueWrite(slot[1], bw0) IN
    IF bw1.w.st # None
      THEN [w |-> bw1.w, region |-> Region(size, bw1.index, bw1.index)] ELSE
    LET bw2 == WritePadding(bw1) IN
    [w |-> bw2.w, region |-> Region(size, bw1.index, bw2.index)]
  ELSE [w |-> [w EXCEPT !.st = None], region |-> NoRegion]

\* WriteEntry(const Entry<T, Id, DeletedEntry>&, writer).
WriteDeletedEntry(w) == [w |-> [w EXCEPT !.st = None], region |-> NoRegion]

\* WriteEntry that encodes an empty active entry too, as the value T{}.
WriteEntryEvenEmpty(entry, slot, w) ==
  IF entry.tag = Active
    THEN WriteActiveEntry(entry.Id, IF Empty(slot) THEN <<0>> ELSE slot, w)
    ELSE WriteDeletedEntry(w)

\* WriteEntry, by the tag of the entry type.
WriteEntry(entry, slot, w) ==
  IF entry.tag = Active THEN WriteActiveEntry(entry.Id, slot, w)
  ELSE WriteDeletedEntry(w)

\* ReadEntry that returns after Encoding<T>::Read, without ReadPadding.
ReadActiveEntryNoPadding(slot, r) ==
  IF Empty(slot) THEN
    LET x == ReaderRead(r, 1) IN
    IF x.r.st # None THEN [r |-> x.r, slot |-> slot, region |-> NoRegion]
    ELSE IF x.bytes[1] # BinaryByte
      THEN [r |-> [x.r EXCEPT !.st = ErrorStatusCast(EPROTO)], slot |-> slot,
            region |-> NoRegion] ELSE
    LET y == U64Read(x.r) IN
    IF y.r.st # None THEN [r |-> y.r, slot |-> slot, region |-> NoRegion] ELSE
    LET z == ValueRead(0, NewBoundedReader(y.r, y.v)) IN
    [r |-> z.br.r, slot |-> <<z.v>>,
     region |-> Region(y.v, z.br.index, z.br.index)]
  ELSE [r |-> [r EXCEPT !.st = ErrorStatusCast(EPROTO)], slot |-> slot,
        region |-> NoRegion]

\* ReadEntry that hands Encoding<T>::Read the reader itself, not the
\* BoundedReader: nothing limits the value decoder to the entry's size.
ReadActiveEntryUnbounded(slot, r) ==
  IF Empty(slot) THEN
    LET x == ReaderRead(r, 1) IN
    IF x.r.st # None THEN [r |-> x.r, slot |-> slot, region |-> NoRegion]
    ELSE IF x.bytes[1] # BinaryByte
      THEN [r |-> [x.r EXCEPT !.st = ErrorStatusCast(EPROTO)], slot |-> slot,
            region |-> NoRegion] ELSE
    LET y == U64Read(x.r) IN
    IF y.r.st # None THEN [r |-> y.r, slot |-> slot, region |-> NoRegion] ELSE
    LET z == ValueRead(0, NewBoundedReader(y.r, Len(y.r.buf))) IN
    IF z.br.r.st # None \/ z.br.index >= y.v
      THEN [r |-> z.br.r, slot |-> <<z.v>>,
            region |-> Region(y.v, z.br.index, z.br.index)] ELSE
    LET br2 == ReadPadding(NewBoundedReader(z.br.r, y.v - z.br.index)) IN
    [r |-> br2.r, slot |-> <<z.v>>,
     region |-> Region(y.v, z.br.index, z.br.index + br2.index)]
  ELSE [r |-> [r EXCEPT !.st = ErrorStatusCast(EPROTO)], slot |-> slot,
        region |-> NoRegion]

\* ReadEntry(Entry<T, Id, ActiveEntry>*, reader).
ReadActiveEntry(slot, r) ==
  IF Empty(slot) THEN
    LET x == ReaderRead(r, 1) IN
    IF x.r.st # None THEN [r |-> x.r, slot |-> slot, region |-> NoRegion]
    ELSE IF x.bytes[1] # BinaryByte
      THEN [r |-> [x.r EXCEPT !.st = ErrorStatusCast(EPROTO)], slot |-> slot,
            region |-> NoRegion] ELSE
    LET y == U64Read(x.r) IN
    IF y.r.st # None THEN [r |-> y.r, slot |-> slot, region |-> NoRegion] ELSE
    LET br0 == NewBoundedReader(y.r, y.v)
        z == ValueRead(0, br0) IN
    IF z.br.r.st # None
      THEN [r |-> z.br.r, slot |-> <<z.v>>,
            region |-> Region(y.v, z.br.index, z.br.index)] ELSE
    LET br2 == ReadPadding(z.br) IN
    [r |-> br2.r, slot |-> <<z.v>>,
     region |-> Region(y.v, z.br.index, br2.index)]
  ELSE [r |-> [r EXCEPT !.st = ErrorStatusCast(EPROTO)], slot |-> slot,
        region |-> NoRegion]

\* SkipEntry that returns after reading the size, without reader->Skip(size).
SkipEntryNoSkip(r) ==
  LET x == ReaderRead(r, 1) IN
  IF x.r.st # None THEN x.r
  ELSE IF x.bytes[1] # BinaryByte
    THEN [x.r EXCEPT !.st = ErrorStatusCast(EPROTO)] ELSE
  U64Read(x.r).r

\* SkipEntry(reader).
SkipEntry(r) ==
  LET x == ReaderRead(r, 1) IN
  IF x.r.st # None THEN x.r
  ELSE IF x.bytes[1] # BinaryByte
    THEN [x.r EXCEPT !.st = ErrorStatusCast(EPROTO)] ELSE
  LET y == U64Read(x.r) IN
  IF y.r.st # None THEN y.r ELSE ReaderSkip(y.r, y.v)

\* ReadEntry of a deleted entry that returns success without SkipEntry.
ReadDeletedEntryNoSkip(slot, r) ==
  [r |-> [r EXCEPT !.st = None], slot |-> slot, region |-> NoRegion]

\* ReadEntry(Entry<T, Id, DeletedEntry>*, reader).
ReadDeletedEntry(slot, r) ==
  [r |-> SkipEntry(r), slot |-> slot, region |-> NoRegion]

\* ReadEntry, by the tag of the entry type.
ReadEntry(entry, slot, r) ==
  IF entry.tag = Active THEN ReadActiveEntry(slot, r)
  ELSE ReadDeletedEntry(slot, r)

\* ReadEntryForId whose scan stops one entry early: the first entry of the
\* list is never compared.
RECURSIVE ReadEntryForIdSkipsFirst(_, _, _, _, _)
ReadEntryForIdSkipsFirst(schema, table, id, r, index) ==
  IF index <= 1
    THEN [r |-> SkipEntry(r), table |-> table, region |-> NoRegion]
  ELSE IF schema.entries[index].Id = id
    THEN LET e == ReadEntry(schema.entries[index], table[index], r) IN
         [r |-> e.r, table |-> [table EXCEPT ![index] = e.slot],
          region |-> e.region]
  ELSE ReadEntryForIdSkipsFirst(schema, table, id, r, index - 1)

\* ReadEntryForId that compares the id with the last entry of the list
\* only and otherwise skips the entry, without going down the list.
ReadEntryForIdLastOnly(schema, table, id, r, index) ==
  IF index = 0
    THEN [r |-> SkipEntry(r), table |-> table, region |-> NoRegion]
  ELSE IF schema.entries[index].Id = id
    THEN LET e == ReadEntry(schema.entries[index], table[index], r) IN
         [r |-> e.r, table |-> [table EXCEPT ![index] = e.slot],
          region |-> e.region]
  ELSE [r |-> SkipEntry(r), table |-> table, region |-> NoRegion]

\* ReadEntryForId(value, id, reader, Index<index>): scans the entry list
\* from its last entry down to its first.
RECURSIVE ReadEntryForId(_, _, _, _, _)
ReadEntryForId(schema, table, id, r, index) ==
  IF index = 0
    THEN [r |-> SkipEntry(r), table |-> table, region |-> NoRegion]
  ELSE IF schema.entries[index].Id = id
    THEN LET e == ReadEntry(schema.entries[index], table[index], r) IN
         [r |-> e.r, table |-> [table EXCEPT ![index] = e.slot],
          region |-> e.region]
  ELSE ReadEntryForId(schema, table, id, r, index - 1)

\* One iteration of the loop of ReadEntries, once the id has been read
\* (x: the reader after Encoding<std::uint64_t>::Read and the id).
ReadEntriesId(schema, table, x) ==
  IF x.r.st # None
    THEN [r |-> x.r, table |-> table, region |-> NoRegion, id |-> -1]
    ELSE [id |-> x.v] @@ ReadEntryForId(schema, table, x.v, x.r, Count(schema))

\* One iteration of the loop of ReadEntries.
ReadEntriesBody(schema, table, r) == ReadEntriesId(schema, table, U64Read(r))

\* WriteEntries(value, writer, Index<index>).
RECURSIVE WriteEntriesIndex(_, _, _, _)
WriteEntriesIndex(schema, table, w, index) ==
  IF index = 0 THEN [w EXCEPT !.st = None]
  ELSE LET w1 == WriteEntriesIndex(schema, table, w, index - 1) IN
       IF w1.st # None THEN w1
       ELSE WriteEntry(schema.entries[index], table[index], w1).w

\* Encoding<Table>::WritePayload(prefix, value, writer).
WritePayload(schema, table, w) ==
  LET w1 == U64Write(Hash(schema), w) IN
  IF w1.st # None THEN w1 ELSE
  LET w2 == U64Write(ActiveEntryCount(table, Count(schema)), w1) IN
  IF w2.st # None THEN w2
  ELSE WriteEntriesIndex(schema, table, w2, Count(schema))

\* EncodingIO<Table>::Write(value, writer): the prefix byte, then
\* WritePayload.
Write(schema, table, w) ==
  LET w1 == WriterWrite(w, <<TableByte>>) IN
  IF w1.st # None THEN w1 ELSE WritePayload(schema, table, w1)

\* ReadEntries whose loop runs once more than the count says.
RECURSIVE ReadEntriesFromInclusive(_, _, _, _, _)
ReadEntriesFromInclusive(schema, table, count, r, i) ==
  IF i > count THEN [r |-> [r EXCEPT !.st = None], table |-> table]
  ELSE LET e == ReadEntriesBody(schema, table, r) IN
       IF e.r.st # None THEN [r |-> e.r, table |-> e.table]
       ELSE ReadEntriesFromInclusive(schema, e.table, count, e.r, i + 1)

\* ReadEntries(value, count, reader), from iteration i of its loop on.
RECURSIVE ReadEntriesFrom(_, _, _, _, _)
ReadEntriesFrom(schema, table, count, r, i) ==
  IF i >= count THEN [r |-> [r EXCEPT !.st = None], table |-> table]
  ELSE LET e == ReadEntriesBody(schema, table, r) IN
       IF e.r.st # None THEN [r |-> e.r, table |-> e.table]
       ELSE ReadEntriesFrom(schema, e.table, count, e.r, i + 1)

\* ReadPayload that clears the entries once the hash has compared equal.
ReadPayloadClearsLate(schema, table, r) ==
  LET x == U64Read(r) IN
  IF x.r.st # None THEN [r |-> x.r, table |-> table]
  ELSE IF x.v # Hash(schema)
    THEN [r |-> [x.r EXCEPT !.st = ErrorStatusCast(EPROTO)],
          table |-> table] ELSE
  LET cleared == ClearEntries(table)
      y == U64Read(x.r) IN
  IF y.r.st # None THEN [r |-> y.r, table |-> cleared]
  ELSE ReadEntriesFrom(schema, cleared, y.v, y.r, 0)

\* Encoding<Table>::ReadPayload(prefix, value, reader).
ReadPayload(schema, table, r) ==
  LET cleared == ClearEntries(table)
      x == U64Read(r) IN
  IF x.r.st # None THEN [r |-> x.r, table |-> cleared]
  ELSE IF x.v # Hash(schema)
    THEN [r |-> [x.r EXCEPT !.st = ErrorStatusCast(EPROTO)],
          table |-> cleared] ELSE
  LET y == U64Read(x.r) IN
  IF y.r.st # None THEN [r |-> y.r, table |-> cleared]
  ELSE ReadEntriesFrom(schema, cleared, y.v, y.r, 0)

\* EncodingIO<Table>::Read(value, reader): the prefix byte, which must
\* match, then ReadPayload.
Read(schema, table, r) ==
  LET x == ReaderRead(r, 1) IN
  IF x.r.st # None THEN [r |-> x.r, table |-> table]
  ELSE IF x.bytes[1] # TableByte
    THEN [r |-> [x.r EXCEPT !.st = UnexpectedEncodingType], table |-> table]
  ELSE ReadPayload(schema, table, x.r)

(***************************************************************************)
(* State.                                                                  *)
(***************************************************************************)
VARIABLES
  source,   \* where the decoder's bytes come from: "serialize" or "wire"
  wsize,    \* what Encoding<Table>::Size returned for wtable, -1 before
  call,     \* a call of the codec on values given whole, and its result
  wschema,  \* the table type being serialized
  wtable,   \* its value: one Optional per entry
  wpc,      \* position of the caller of Size and of the serializer
  windex,   \* entries WriteEntries has gone through
  wstatus,  \* status the serializer returned or holds
  wentry,   \* the last WriteEntry call: entry index, offset, region
  stream,   \* the bytes the sink holds
  rschema,  \* the table type being deserialized into
  rtable,   \* the destination value
  rpc,      \* position of the deserializer
  rhash,    \* the hash read from the stream, -1 before it is read
  rcount,   \* the count read from the stream
  ri,       \* the loop variable i of ReadEntries
  rpos,     \* bytes of the source consumed so far
  rstatus,  \* status the deserializer returned or holds
  rentry    \* the last iteration of ReadEntries: the id read, the byte
            \* that followed it, the offset it began at, the table before
            \* it and the bounded region it opened

vars == <<source, wsize, call,
          wschema, wtable, wpc, windex, wstatus, wentry, stream,
          rschema, rtable, rpc, rhash, rcount, ri, rpos, rstatus, rentry>>
\* What no step of a serialization or a deserialization writes.
cvars == <<source, wsize, call>>
wvars == <<wschema, wtable, wpc, windex, wstatus, wentry, stream>>
rvars == <<rschema, rtable, rpc, rhash, rcount, ri, rpos, rstatus, rentry>>

\* No call on whole values has been made.
NoCall == [op |-> "none"]

NoWEntry == [index |-> 0, start |-> 0, region |-> NoRegion]
NoREntry ==
  [id |-> -1, marker |-> -1, start |-> 0, before |-> <<>>, region |-> NoRegion]

\* The bytes a sink may still accept when a step of the serializer runs:
\* from none to more than the longest step writes.
Rooms == 0..(2 * U64Bytes + 1 + Len(ValueEncode(0)) + MaxOver)

Init ==
  /\ source \in {"serialize", "wire"}
  /\ IF source = "serialize"
       THEN /\ wschema \in { s \in Schemas : s.name = "MyTable" }
            /\ wtable \in Tables(wschema)
            /\ wpc = "size"
       ELSE /\ wschema = NoSchema
            /\ wtable = <<>>
            /\ wpc = "idle"
  /\ wsize = -1
  /\ call = NoCall
  /\ windex = 0
  /\ wstatus = None
  /\ wentry = NoWEntry
  /\ stream = <<>>
  /\ rschema = NoSchema
  /\ rtable = <<>>
  /\ rpc = "idle"
  /\ rhash = -1
  /\ rcount = 0
  /\ ri = 0
  /\ rpos = 0
  /\ rstatus = None
  /\ rentry = NoREntry

(***************************************************************************)
(* Encoding<Table>::Size.                                                  *)
(***************************************************************************)
\* The effect of a call of Size that returned size: the table is passed by
\* const reference and no reader or writer is passed at all.
TableSizeStep(size) ==
  /\ wsize' = size
  /\ wpc' = "prefix"
  /\ UNCHANGED <<source, call, wschema, wtable, windex, wstatus, wentry,
                 stream, rvars>>

\* The caller asks for the encoded size of the table before it serializes
\* the table.
TableSize ==
  /\ wpc = "size"
  /\ TableSizeStep(Size(wschema, wtable))

(***************************************************************************)
(* Serialize: EncodingIO<Table>::Write, then WritePayload.                 *)
(***************************************************************************)
\* A step of the serializer other than WriteEntry leaves the sink as w and
\* goes on to next unless the write failed.
WriteStep(w, next) ==
  /\ stream' = w.out
  /\ wstatus' = w.st
  /\ wpc' = IF w.st = None THEN next ELSE "done"
  /\ UNCHANGED <<cvars, wschema, wtable, windex, wentry, rvars>>

\* EncodingIO::Write: the prefix byte, then WritePayload.
WritePrefix ==
  /\ wpc = "prefix"
  /\ \E room \in Rooms :
       WriteStep(WriterWrite(NewWriter(stream, room), <<TableByte>>), "hash")

\* WritePayload: the hash of the table name.
WriteHash ==
  /\ wpc = "hash"
  /\ \E room \in Rooms :
       WriteStep(U64Write(Hash(wschema), NewWriter(stream, room)), "count")

\* WritePayload: the number of non-empty active entries; WriteEntries of an
\* empty entry list returns at once.
WriteCount ==
  /\ wpc = "count"
  /\ \E room \in Rooms :
       WriteStep(U64Write(ActiveEntryCount(wtable, Count(wschema)),
                          NewWriter(stream, room)),
                 IF Count(wschema) = 0 THEN "done" ELSE "entries")

\* A WriteEntry call whose failure WriteEntries does not return.
WriteEntryStepGoesOn(e) ==
  /\ stream' = e.w.out
  /\ wstatus' = e.w.st
  /\ windex' = windex + 1
  /\ wentry' = [index |-> windex + 1, start |-> Len(stream),
                region |-> e.region]
  /\ wpc' = IF windex + 1 = Count(wschema) THEN "done" ELSE "entries"
  /\ UNCHANGED <<cvars, wschema, wtable, rvars>>

\* The effect of one WriteEntry call that returned e.
WriteEntryStep(e) ==
  /\ stream' = e.w.out
  /\ wstatus' = e.w.st
  /\ windex' = windex + 1
  /\ wentry' = [index |-> windex + 1, start |-> Len(stream),
                region |-> e.region]
  /\ wpc' = IF e.w.st # None \/ windex + 1 = Count(wschema)
              THEN "done" ELSE "entries"
  /\ UNCHANGED <<cvars, wschema, wtable, rvars>>

\* WriteEntries: the entries in declaration order, stopping at a failure.
WriteEntries ==
  /\ wpc = "entries"
  /\ windex < Count(wschema)
  /\ \E room \in Rooms :
       WriteEntryStep(WriteEntry(wschema.entries[windex + 1],
                                 wtable[windex + 1], NewWriter(stream, room)))

(***************************************************************************)
(* The bytes the deserializer is given.                                    *)
(***************************************************************************)
Pad(k) == [i \in 1..k |-> PadByte]

\* Sized regions a foreign or malformed writer may put on the wire.
WireRegions ==
  { [size |-> Len(ValueEncode(v)) + k, body |-> ValueEncode(v) \o Pad(k)] :
      v \in Values, k \in 0..MaxOver }
  \cup { [size |-> 0, body |-> <<>>],
         [size |-> 1, body |-> <<ValueByte>>],
         [size |-> 2, body |-> <<ValueByte>>],
         [size |-> 2, body |-> <<TableByte, 0>>],
         [size |-> 3, body |-> ValueEncode(0)] }

WirePrefixes == { <<TableByte>>, <<BinaryByte>>, <<>> }
WireHashes == { U64Encode(SipHashCompute(n)) : n \in Names } \cup { <<>> }
WireCounts == { U64Encode(c) : c \in 0..MaxCount } \cup { <<>> }
WireEntries ==
  { U64Encode(id) \o <<BinaryByte>> \o U64Encode(g.size) \o g.body :
      id \in Ids, g \in WireRegions }
  \cup { U64Encode(id) \o <<TableByte>> : id \in Ids }
  \cup { U64Encode(id) \o <<BinaryByte>> : id \in Ids }
  \cup { <<>> }

\* The unread bytes of the source: what the serializer left in the sink, or
\* any of the given wire items.
Input(wire) ==
  IF source = "serialize"
    THEN { SubSeq(stream, rpos + 1, Len(stream)) }
    ELSE wire

(***************************************************************************)
(* Deserialize: EncodingIO<Table>::Read, then ReadPayload.                 *)
(***************************************************************************)
\* The tables a caller may pass in: a fresh one, or one with every active
\* entry set.
CallerTables(schema) ==
  { ClearEntries([i \in 1..Count(schema) |-> <<>>]),
    [i \in 1..Count(schema) |->
       IF schema.entries[i].tag = Active THEN <<MaxValue>> ELSE <<>>] }

\* A caller deserializes into a table of some type: from a stream the
\* serializer has completed, or from the wire.
ReadStart ==
  /\ rpc = "idle"
  /\ source = "serialize" => (wpc = "done" /\ wstatus = None)
  /\ \E s \in Schemas : \E t \in CallerTables(s) :
       /\ rschema' = s
       /\ rtable' = t
  /\ rpc' = "prefix"
  /\ UNCHANGED <<cvars, wvars, rhash, rcount, ri, rpos, rstatus, rentry>>

\* EncodingIO::Read after the prefix byte has been read (x).
ReadPrefixStep(x) ==
  /\ rpos' = rpos + x.r.pos
  /\ rstatus' = IF x.r.st # None THEN x.r.st
                ELSE IF x.bytes[1] # TableByte THEN UnexpectedEncodingType
                ELSE None
  /\ rpc' = IF rstatus' = None THEN "hash" ELSE "done"
  /\ UNCHANGED <<cvars, wvars, rschema, rtable, rhash, rcount, ri, rentry>>

\* EncodingIO::Read: the prefix byte must match, then ReadPayload.
ReadPrefix ==
  /\ rpc = "prefix"
  /\ \E in \in Input(WirePrefixes) : ReadPrefixStep(ReaderRead(NewReader(in), 1))

\* ReadPayload after the hash has been read (x).
ReadHashStep(x) ==
  /\ rtable' = ClearEntries(rtable)
  /\ rpos' = rpos + x.r.pos
  /\ rhash' = IF x.r.st # None THEN -1 ELSE x.v
  /\ rstatus' = IF x.r.st # None THEN x.r.st
                ELSE IF x.v # Hash(rschema) THEN ErrorStatusCast(EPROTO)
                ELSE None
  /\ rpc' = IF rstatus' = None THEN "count" ELSE "done"
  /\ UNCHANGED <<cvars, wvars, rschema, rcount, ri, rentry>>

\* ReadPayload: clear the entries, read and compare the hash.
ReadHash ==
  /\ rpc = "hash"
  /\ \E in \in Input(WireHashes) : ReadHashStep(U64Read(NewReader(in)))

\* ReadPayload after the count has been read (x).
ReadCountStep(x) ==
  /\ rpos' = rpos + x.r.pos
  /\ rstatus' = x.r.st
  /\ rcount' = x.v
  /\ rpc' = IF x.r.st # None \/ x.v = 0 THEN "done" ELSE "entries"
  /\ UNCHANGED <<cvars, wvars, rschema, rtable, rhash, ri, rentry>>

\* ReadPayload: read the count; ReadEntries with a count of 0 returns at once.
ReadCount ==
  /\ rpc = "count"
  /\ \E in \in Input(WireCounts) : ReadCountStep(U64Read(NewReader(in)))

\* An iteration of ReadEntries whose failure does not leave the loop.
ReadEntriesStepGoesOn(e, in) ==
  /\ rtable' = e.table
  /\ rpos' = rpos + e.r.pos
  /\ rstatus' = e.r.st
  /\ ri' = ri + 1
  /\ rentry' = [id |-> e.id,
                marker |-> IF Len(in) > U64Bytes THEN in[U64Bytes + 1] ELSE -1,
                start |-> rpos, before |-> rtable, region |-> e.region]
  /\ rpc' = IF ri + 1 = rcount THEN "done" ELSE "entries"
  /\ UNCHANGED <<cvars, wvars, rschema, rhash, rcount>>

\* The effect of one iteration of ReadEntries that ended as e.
ReadEntriesStep(e, in) ==
  /\ rtable' = e.table
  /\ rpos' = rpos + e.r.pos
  /\ rstatus' = e.r.st
  /\ ri' = ri + 1
  /\ rentry' = [id |-> e.id,
                marker |-> IF Len(in) > U64Bytes THEN in[U64Bytes + 1] ELSE -1,
                start |-> rpos, before |-> rtable, region |-> e.region]
  /\ rpc' = IF e.r.st # None \/ ri + 1 = rcount THEN "done" ELSE "entries"
  /\ UNCHANGED <<cvars, wvars, rschema, rhash, rcount>>

\* ReadEntries: one iteration of the loop; a failure returns at once.
ReadEntries ==
  /\ rpc = "entries"
  /\ ri < rcount
  /\ \E in \in Input(WireEntries) :
       ReadEntriesStep(ReadEntriesBody(rschema, rtable, NewReader(in)), in)

Next ==
  \/ TableSize
  \/ WritePrefix
  \/ WriteHash
  \/ WriteCount
  \/ WriteEntries
  \/ ReadStart
  \/ ReadPrefix
  \/ ReadHash
  \/ ReadCount
  \/ ReadEntries

Spec == Init /\ [][Next]_vars

TypeOK ==
  /\ source \in {"serialize", "wire"}
  /\ wpc \in {"idle", "size", "prefix", "hash", "count", "entries", "done"}
  /\ rpc \in {"idle", "prefix", "hash", "count", "entries", "done"}
  /\ windex \in 0..Count(wschema)
  /\ ri \in 0..rcount
  /\ rpos >= 0
  /\ wsize >= -1
  /\ call = NoCall

(***************************************************************************)
(* Declaring a table type: the static_assert of EntryList.                 *)
(***************************************************************************)
\* No table is being serialized or deserialized.
Idle ==
  /\ source = "wire"
  /\ wsize = -1
  /\ wschema = NoSchema /\ wtable = <<>> /\ wpc = "idle"
  /\ windex = 0 /\ wstatus = None /\ wentry = NoWEntry /\ stream = <<>>
  /\ rschema = NoSchema /\ rtable = <<>> /\ rpc = "idle"
  /\ rhash = -1 /\ rcount = 0 /\ ri = 0 /\ rpos = 0
  /\ rstatus = None /\ rentry = NoREntry
svars == <<source, wsize, wvars, rvars>>

\* A program declares a table type with some entry list.
InitEntryList ==
  /\ Idle
  /\ call \in { [op |-> "EntryList", entries |-> e,
                 done |-> FALSE, accepted |-> FALSE] : e \in Declarations }

\* EntryList<Hash, MemberPointers...> is instantiated: the static_assert
\* accepts the list or stops the build.
EntryListStep(unique) ==
  /\ call' = [call EXCEPT !.done = TRUE, !.accepted = unique]
  /\ UNCHANGED svars

EntryList ==
  /\ call.op = "EntryList"
  /\ ~call.done
  /\ EntryListStep(IsUnique(call.entries))

NextEntryList == EntryList

SpecEntryList == InitEntryList /\ [][NextEntryList]_vars

(***************************************************************************)
(* Deserializing a whole stream in one call.                               *)
(***************************************************************************)
\* The entries a stream may hold, each delimited by its own size field:
\* the encoding of a value as the writer of this table emits it, a region
\* too short for a value, and an entry with another prefix byte than Binary.
StreamRegions(id) ==
  { [size |-> ValueSize(id, v), body |-> ValueEncode(v) \o Pad(TypeOver(id))] :
      v \in Values }
  \cup { [size |-> 1, body |-> <<ValueByte>>] }
StreamItems ==
  UNION { { [id |-> id, marker |-> BinaryByte, size |-> g.size,
             body |-> g.body] : g \in StreamRegions(id) }
          \cup { [id |-> id, marker |-> TableByte, size |-> 0,
                   body |-> <<>>] } : id \in Ids }

\* The bytes of an entry and of a sequence of entries.
ItemBytes(it) ==
  U64Encode(it.id) \o <<it.marker>> \o
  (IF it.marker = BinaryByte THEN U64Encode(it.size) \o it.body ELSE <<>>)
RECURSIVE ItemsBytes(_)
ItemsBytes(items) ==
  IF items = <<>> THEN <<>>
  ELSE ItemBytes(Head(items)) \o ItemsBytes(Tail(items))

\* The stream of a table with the given hash and entries.
StreamOf(hash, items) ==
  <<TableByte>> \o U64Encode(hash) \o U64Encode(Len(items)) \o
  ItemsBytes(items)

\* A fresh table of the type.
Fresh(schema) == [i \in 1..Count(schema) |-> <<>>]

\* The entries of the stream have pairwise distinct ids.
DistinctIds(items) ==
  \A i, j \in 1..Len(items) : items[i].id = items[j].id => i = j

\* The streams a writer that emits no id twice may produce: up to MaxCount
\* entries, in any order.
Streams ==
  { its \in UNION { [1..n -> StreamItems] : n \in 0..MaxCount } :
      DistinctIds(its) }

\* A caller deserializes such a stream, whose hash is that of the table
\* type, into a fresh table.
InitRead ==
  /\ Idle
  /\ call \in { [op |-> "Read", schema |-> sc, items |-> its, done |-> FALSE,
                 st |-> None, pos |-> 0, table |-> Fresh(sc)] :
                 sc \in { x \in Schemas : x.name = "MyTable" },
                 its \in Streams }

\* The call returned as x.
ReadCallStep(x) ==
  /\ call' = [call EXCEPT !.done = TRUE, !.st = x.r.st, !.pos = x.r.pos,
                          !.table = x.table]
  /\ UNCHANGED svars

ReadCall ==
  /\ call.op = "Read"
  /\ ~call.done
  /\ ReadCallStep(Read(call.schema, call.table,
                       NewReader(StreamOf(Hash(call.schema), call.items))))

NextRead == ReadCall

SpecRead == InitRead /\ [][NextRead]_vars

(***************************************************************************)
(* Two tables serialized into one stream and deserialized from it.         *)
(***************************************************************************)
\* A sink with room for two tables of the type.
Roomy(schema) ==
  NewWriter(<<>>, 2 * (BaseEncodingSize(TableByte) + 2 * U64Bytes +
                       Count(schema) * (2 * U64Bytes +
                                        BaseEncodingSize(BinaryByte) +
                                        Len(ValueEncode(0)) + MaxOver)))

\* A caller serializes a table and then a second table of the same type,
\* fresh or with every active entry set, into one sink, and deserializes
\* the stream into two tables of a type with the same name.
InitStream ==
  /\ Idle
  /\ \E ws, rs \in { x \in Schemas : x.name = "MyTable" } :
       \E t1 \in Tables(ws), t2 \in CallerTables(ws) :
         call = [op |-> "Stream", wschema |-> ws, first |-> t1, second |-> t2,
                 rschema |-> rs, done |-> FALSE, out |-> <<>>, mid |-> 0,
                 st |-> <<None, None>>, pos |-> <<0, 0>>,
                 table |-> <<Fresh(rs), Fresh(rs)>>]

\* The two Write calls returned w1 and w2, the two Read calls r1 and r2.
StreamCallStep(w1, w2, r1, r2) ==
  /\ call' = [call EXCEPT !.done = TRUE, !.out = w2.out, !.mid = Len(w1.out),
                          !.st = <<r1.r.st, r2.r.st>>,
                          !.pos = <<r1.r.pos, r2.r.pos>>,
                          !.table = <<r1.table, r2.table>>]
  /\ UNCHANGED svars

\* The second Read goes on where the first one left the reader.
StreamReads(w1, w2) ==
  StreamCallStep(w1, w2,
                 Read(call.rschema, Fresh(call.rschema), NewReader(w2.out)),
                 Read(call.rschema, Fresh(call.rschema),
                      Read(call.rschema, Fresh(call.rschema),
                           NewReader(w2.out)).r))

StreamCall ==
  /\ call.op = "Stream"
  /\ ~call.done
  /\ StreamReads(Write(call.wschema, call.first, Roomy(call.wschema)),
                 Write(call.wschema, call.second,
                       Write(call.wschema, call.first, Roomy(call.wschema))))

NextStream == StreamCall

SpecStream == InitStream /\ [][NextStream]_vars

(***************************************************************************)
(* ReadPayload on a table that holds the values of an earlier use.         *)
(***************************************************************************)
\* The entries that may follow the count: those of Streams, and two entries
\* with the same id.
Arrivals ==
  Streams \cup { its \in [1..2 -> StreamItems] : its[1].id = its[2].id }

\* What the source holds after the prefix byte: nothing, the hash alone, or
\* the hash, the count and the entries.
PayloadOf(upto, hash, count, items) ==
  IF upto = "nothing" THEN <<>>
  ELSE IF upto = "hash" THEN U64Encode(hash)
  ELSE U64Encode(hash) \o U64Encode(count) \o ItemsBytes(items)

\* A caller that has read the prefix byte of a table hands ReadPayload a
\* table, fresh or with every active entry set.  The source ends before the
\* hash, after it, or holds a table whose count covers all or some of the
\* entries that follow; the hash is that of either name.
InitPayload ==
  /\ Idle
  /\ \E sc \in { x \in Schemas : x.name = "MyTable" } :
       \E t \in CallerTables(sc), n \in Names,
          u \in {"nothing", "hash", "table"}, its \in Arrivals :
         \E c \in 0..Len(its) :
           /\ u # "table" => its = <<>>
           /\ n # sc.name => Len(its) <= 1
           /\ call = [op |-> "ReadPayload", schema |-> sc, prior |-> t,
                      upto |-> u, hash |-> SipHashCompute(n), count |-> c,
                      items |-> its, done |-> FALSE, st |-> None, pos |-> 0,
                      table |-> t]

\* The call returned as x.
PayloadCallStep(x) ==
  /\ call' = [call EXCEPT !.done = TRUE, !.st = x.r.st, !.pos = x.r.pos,
                          !.table = x.table]
  /\ UNCHANGED svars

PayloadCall ==
  /\ call.op = "ReadPayload"
  /\ ~call.done
  /\ PayloadCallStep(ReadPayload(call.schema, call.table,
                                 NewReader(PayloadOf(call.upto, call.hash,
                                                     call.count, call.items))))

NextPayload == PayloadCall

SpecPayload == InitPayload /\ [][NextPayload]_vars

(***************************************************************************)
(* Vocabulary of the properties.                                           *)
(***************************************************************************)
\* The entry list declares the id / declares it as an active entry.
Declares(schema, id) ==
  \E i \in 1..Count(schema) : schema.entries[i].Id = id
DeclaresActive(schema, id) ==
  \E i \in 1..Count(schema) :
    schema.entries[i].Id = id /\ schema.entries[i].tag = Active

\* The slot of the entry with the id, in a table of a schema declaring it.
IndexOf(schema, id) ==
  CHOOSE i \in 1..Count(schema) : schema.entries[i].Id = id
SlotOf(schema, table, id) == table[IndexOf(schema, id)]

\* A complete serialization is in the sink / a deserialization of it returned.
Serialized == source = "serialize" /\ wpc = "done" /\ wstatus = None
Deserialized == source = "serialize" /\ rpc = "done"

\* Every entry active in both schemas holds on the reading side what the
\* writing side held.
CommonEntriesAgree ==
  \A id \in Ids :
    DeclaresActive(wschema, id) /\ DeclaresActive(rschema, id) =>
      SlotOf(rschema, rtable, id) = SlotOf(wschema, wtable, id)

\* The slots of a table that hold a value.
Present(table) == { i \in DOMAIN table : ~Empty(table[i]) }

\* Wire length of an entry up to its sized region: id, prefix byte, size.
EntryHeader == U64Bytes + 1 + U64Bytes

(***************************************************************************)
(* Properties.                                                             *)
(***************************************************************************)
\* C1 (round trip): a table that is serialized and then deserialized into a
\* table of the same type comes back without error and equal slot for slot.
C1_RoundTrip ==
  (Deserialized /\ rschema = wschema) => (rstatus = None /\ rtable = wtable)

\* Reached: both entries of a two-entry table were written and read back.
C1_Witness ==
  /\ Deserialized /\ rschema = wschema /\ rstatus = None
  /\ Count(wschema) = 2 /\ Present(wtable) = {1, 2}
  /\ wtable[1] # wtable[2]
  /\ rtable = wtable

\* C2 (forward tolerance): when the writing type has an active entry whose
\* id the reading type does not declare and both have the same hash, the
\* deserialization succeeds, the entries active in both hold the written
\* values and the source is consumed up to the end of the last entry.
WriterHasExtra ==
  \E i \in 1..Count(wschema) :
    /\ wschema.entries[i].tag = Active
    /\ ~Declares(rschema, wschema.entries[i].Id)

C2_ForwardTolerance ==
  (Deserialized /\ Hash(rschema) = Hash(wschema) /\ WriterHasExtra) =>
    /\ rstatus = None
    /\ CommonEntriesAgree
    /\ rpos = Len(stream)

\* Reached: an undeclared entry was on the wire ahead of a declared one, and
\* the declared one was read.
C2_Witness ==
  /\ Deserialized /\ Hash(rschema) = Hash(wschema) /\ rstatus = None
  /\ \E i, j \in 1..Count(wschema) :
       /\ i < j
       /\ wschema.entries[i].tag = Active /\ ~Empty(wtable[i])
       /\ ~Declares(rschema, wschema.entries[i].Id)
       /\ ~Empty(wtable[j])
       /\ DeclaresActive(rschema, wschema.entries[j].Id)
       /\ SlotOf(rschema, rtable, wschema.entries[j].Id) = wtable[j]
  /\ rpos = Len(stream)

\* C3 (backward tolerance): when the reading type has an active entry whose
\* id the writing type never declared and both have the same hash, the
\* deserialization succeeds, the entries active in both hold the written
\* values and the added entry is empty.
ReaderAdded(j) ==
  /\ rschema.entries[j].tag = Active
  /\ ~Declares(wschema, rschema.entries[j].Id)

C3_BackwardTolerance ==
  (/\ Deserialized /\ Hash(rschema) = Hash(wschema)
   /\ \E j \in 1..Count(rschema) : ReaderAdded(j)) =>
    /\ rstatus = None
    /\ CommonEntriesAgree
    /\ \A j \in 1..Count(rschema) : ReaderAdded(j) => Empty(rtable[j])

\* Reached: the older type's entry was read and the added entry is empty.
C3_Witness ==
  /\ Deserialized /\ Hash(rschema) = Hash(wschema) /\ rstatus = None
  /\ \E j \in 1..Count(rschema) : ReaderAdded(j) /\ Empty(rtable[j])
  /\ \E id \in Ids :
       /\ DeclaresActive(wschema, id) /\ DeclaresActive(rschema, id)
       /\ ~Empty(SlotOf(rschema, rtable, id))

\* C4 (schema identity check): when the hash read from the stream differs
\* from the hash of the destination type, deserialization fails with
\* InvalidTableHash, before it reads the count or any entry.
C4_SchemaIdentityCheck ==
  (rpc = "done" /\ rhash # -1 /\ rhash # Hash(rschema)) =>
    /\ rstatus = InvalidTableHash
    /\ rpos = 1 + U64Bytes
    /\ ri = 0 /\ rentry = NoREntry

\* C5 (duplicate id rejection): an entry whose id belongs to an active entry
\* that already received a value from this stream fails the deserialization
\* with DuplicateTableEntry.
SecondEntryForActiveId ==
  /\ rentry.id # -1
  /\ DeclaresActive(rschema, rentry.id)
  /\ ~Empty(SlotOf(rschema, rentry.before, rentry.id))

C5_DuplicateIdRejection ==
  SecondEntryForActiveId => rstatus = DuplicateTableEntry

\* C6 (padding correctness): an entry whose value encoding reports S bytes
\* and writes S - k is written as the size S followed by exactly S bytes,
\* the S - k of the value and then k padding bytes; reading it back consumes
\* exactly those S bytes and yields the written value.
WrittenEntryPadded ==
  LET id == wschema.entries[wentry.index].Id
      v == wtable[wentry.index][1]
      S == ValueSize(id, v)
      k == TypeOver(id)
      at == wentry.start + EntryHeader
      body == SubSeq(stream, at + 1, Len(stream)) IN
  /\ wentry.region.size = S
  /\ wentry.region.value = S - k
  /\ wentry.region.index = S
  /\ FromLittleEndian(SubSeq(stream, at - U64Bytes + 1, at)) = S
  /\ Len(body) = S
  /\ SubSeq(body, 1, S - k) = ValueEncode(v)
  /\ \A i \in (S - k + 1)..S : body[i] = PadByte

ReadEntryPadded ==
  LET S == rentry.region.size
      k == TypeOver(rentry.id) IN
  /\ S = ValueSize(rentry.id, SlotOf(rschema, rtable, rentry.id)[1])
  /\ rentry.region.value = S - k
  /\ rentry.region.index = S
  /\ rpos = rentry.start + EntryHeader + S
  /\ SlotOf(rschema, rtable, rentry.id) = SlotOf(wschema, wtable, rentry.id)

C6_PaddingCorrectness ==
  /\ (source = "serialize" /\ wentry.region.open /\ wstatus = None) =>
       WrittenEntryPadded
  /\ (source = "serialize" /\ rentry.region.open /\ rstatus = None) =>
       ReadEntryPadded

\* Reached: an entry whose encoding overestimates its size was written with
\* padding and read back.
C6_Witness ==
  /\ Deserialized /\ rstatus = None /\ rentry.region.open
  /\ TypeOver(rentry.id) >= 1
  /\ rentry.region.size - rentry.region.value = TypeOver(rentry.id)
  /\ rentry.region.index = rentry.region.size
  /\ wentry.region.open
  /\ wentry.region.size - wentry.region.value >= 1

WrongMarker ==
  /\ rentry.id # -1
  /\ rentry.marker \notin {-1, BinaryByte}
  /\ ~SecondEntryForActiveId

C8_MarkerCheck ==
  WrongMarker =>
    /\ rstatus \in {UnexpectedEncodingType, ProtocolError}
    /\ rpos = rentry.start + U64Bytes + 1
    /\ rtable = rentry.before
    /\ ~rentry.region.open

\* C9 (closed error set): every status the table code returns is a named
\* member of ErrorStatus, so its message is never the fallback.
C9_ClosedErrorSet ==
  /\ rstatus \in ErrorStatusMembers
  /\ wstatus \in ErrorStatusMembers
  /\ GetErrorMessage(rstatus) # "Unknown Error"
  /\ GetErrorMessage(wstatus) # "Unknown Error"

\* The bytes of the stream an entry operation moved for its bounded region
\* are exactly the region's size.
WriteRegionReconciled ==
  /\ wentry.region.index = wentry.region.size
  /\ Len(stream) = wentry.start + EntryHeader + wentry.region.size
ReadRegionReconciled ==
  /\ rentry.region.index = rentry.region.size
  /\ rpos = rentry.start + EntryHeader + rentry.region.size

\* C10 as stated (bounded-window reconciliation on every exit path): once an
\* entry operation that opened a bounded region of N bytes has returned,
\* with success or failure, exactly N bytes were written or consumed for it.
C10_ReconciledOnEveryExit ==
  /\ wentry.region.open => WriteRegionReconciled
  /\ rentry.region.open => ReadRegionReconciled

\* C10 as amended (reconciliation on success): an entry operation that
\* opened a bounded region of N bytes and returned success has written or
\* consumed exactly N bytes for it; one that returned a failure from inside
\* the region has moved the bytes counted so far, never more than N.
C10_ReconciledOnSuccess ==
  /\ (wentry.region.open /\ wstatus = None) => WriteRegionReconciled
  /\ (rentry.region.open /\ rstatus = None) => ReadRegionReconciled
  /\ wentry.region.open =>
       /\ wentry.region.index <= wentry.region.size
       /\ Len(stream) = wentry.start + EntryHeader + wentry.region.index
  /\ rentry.region.open =>
       /\ rentry.region.index <= rentry.region.size
       /\ rpos = rentry.start + EntryHeader + rentry.region.index

\* Reached: a region was padded on the write side and its padding skipped on
\* the read side, both operations returning success.
C10_Witness ==
  /\ wentry.region.open /\ wstatus = None
  /\ wentry.region.value < wentry.region.size
  /\ WriteRegionReconciled
  /\ rentry.region.open /\ rstatus = None
  /\ rentry.region.value < rentry.region.size
  /\ ReadRegionReconciled

\* The sum of f[i] over the elements i of the finite set S.
RECURSIVE SumOver(_, _)
SumOver(f, S) ==
  IF S = {} THEN 0
  ELSE LET i == CHOOSE x \in S : TRUE IN f[i] + SumOver(f, S \ {i})

\* What a slot of the table being serialized adds to the size of the table.
SlotContribution ==
  [i \in 1..Count(wschema) |->
     IF wschema.entries[i].tag = Deleted THEN 0
     ELSE IF Empty(wtable[i]) THEN 0
     ELSE U64Size(wschema.entries[i].Id) +
          ValueSize(wschema.entries[i].Id, wtable[i][1])]

\* C11 (size computation): a call of Size returns the size of the table
\* prefix, of the hash and of the count plus, for every entry, nothing when
\* it is deleted or empty and the size of its id plus the size of its value
\* when it holds one; the call changes neither the table nor the bytes in
\* the sink nor anything of a deserialization.
C11_SizeComputation ==
  [][wsize' # wsize =>
       /\ wsize' = BaseEncodingSize(TableByte) + U64Size(Hash(wschema)) +
                    U64Size(Cardinality(Present(wtable))) +
                    SumOver(SlotContribution, 1..Count(wschema))
       /\ UNCHANGED <<wschema, wtable, stream, wstatus, rvars>>]_vars

\* Reached: the size of a serialized table with a deleted entry and an
\* entry holding a value was computed, the bytes still in the sink.
C11_Witness ==
  /\ wsize > 1 + U64Bytes + U64Bytes
  /\ Serialized /\ stream # <<>>
  /\ Present(wtable) # {}
  /\ \E i \in 1..Count(wschema) : wschema.entries[i].tag = Deleted

\* The ids of the entries a byte sequence holds back to back, each an id,
\* a prefix byte, a size and a region of that size.
RECURSIVE EntryIds(_)
EntryIds(bytes) ==
  IF Len(bytes) < EntryHeader THEN <<>>
  ELSE LET size == FromLittleEndian(SubSeq(bytes, U64Bytes + 2, EntryHeader)) IN
       <<FromLittleEndian(SubSeq(bytes, 1, U64Bytes))>> \o
       EntryIds(SubSeq(bytes, EntryHeader + size + 1, Len(bytes)))

\* The ids of the entries of the table that hold a value, in the order the
\* entry list declares them.
RECURSIVE PresentIds(_, _, _)
PresentIds(schema, table, index) ==
  IF index = 0 THEN <<>>
  ELSE PresentIds(schema, table, index - 1) \o
       (IF Empty(table[index]) THEN <<>> ELSE <<schema.entries[index].Id>>)

\* The count field of the serialized table and the bytes after it.
StreamCount ==
  FromLittleEndian(SubSeq(stream, 1 + U64Bytes + 1, 1 + 2 * U64Bytes))
StreamEntries == SubSeq(stream, 1 + 2 * U64Bytes + 1, Len(stream))

\* C12 (count consistency of the encoder): in a completely serialized table
\* the count field is the number of entries after it and the number of
\* active entries holding a value; the entries are those of the set active
\* entries in declaration order, none for a deleted or an empty entry, and
\* no id occurs twice.
C12_CountConsistency ==
  Serialized =>
    LET ids == EntryIds(StreamEntries) IN
    /\ StreamCount = Len(ids)
    /\ StreamCount = Cardinality(Present(wtable))
    /\ \A i \in Present(wtable) : wschema.entries[i].tag = Active
    /\ ids = PresentIds(wschema, wtable, Count(wschema))
    /\ \A i, j \in 1..Len(ids) : ids[i] = ids[j] => i = j

\* Reached: two entries were emitted in declaration order, which is not the
\* order of their ids.
C12_Witness ==
  /\ Serialized
  /\ StreamCount = 2
  /\ EntryIds(StreamEntries) = <<1, 0>>
  /\ wschema.entries[1].Id = 1

\* C13 (id uniqueness): an entry list is accepted only if no two of its
\* entries have the same id, whatever their tags: a list with an active
\* entry that has the id of one of its deleted entries is rejected.
C13_IdUniqueness ==
  (call.op = "EntryList" /\ call.done) =>
    LET e == call.entries IN
    /\ call.accepted =>
         \A i, j \in 1..Len(e) : i # j => e[i].Id # e[j].Id
    /\ (\E i, j \in 1..Len(e) :
          e[i].tag = Active /\ e[j].tag = Deleted /\ e[i].Id = e[j].Id) =>
         ~call.accepted

\* Reached: a list that declares an id deleted and then active again was
\* rejected.
C13_Witness ==
  /\ call.op = "EntryList" /\ call.done /\ ~call.accepted
  /\ Len(call.entries) = 2
  /\ call.entries[1] = [Id |-> 0, tag |-> Deleted]
  /\ call.entries[2] = [Id |-> 0, tag |-> Active]

\* The entry list with its deleted entries taken out, and the entries of a
\* stream but those whose id the entry list declares deleted.
IsActive(entry) == entry.tag = Active
ActiveOnly(schema) ==
  [schema EXCEPT !.entries = SelectSeq(schema.entries, IsActive)]
DeclaresDeleted(schema, id) == Declares(schema, id) /\ ~DeclaresActive(schema, id)
RECURSIVE NotDeletedItems(_, _)
NotDeletedItems(schema, items) ==
  IF items = <<>> THEN <<>>
  ELSE (IF DeclaresDeleted(schema, Head(items).id) THEN <<>>
        ELSE <<Head(items)>>) \o NotDeletedItems(schema, Tail(items))

\* The stream a whole-stream call was given.
CallStream == StreamOf(Hash(call.schema), call.items)

\* C14 (deleted entry on the wire): an entry of the stream whose id the
\* table type declares deleted is handled as one whose id it does not
\* declare at all: status, bytes consumed and active entries are those of
\* a deserialization into the type without its deleted entries, a success
\* has consumed every entry by its size, and the table is the one the
\* stream without those entries gives; deleted entries stay empty, so a
\* type with only deleted entries always ends with every entry empty.
C14_DeletedAsUnknown ==
  (call.op = "Read" /\ call.done) =>
    LET S == call.schema
        U == ActiveOnly(S)
        asUnknown == Read(U, Fresh(U), NewReader(CallStream))
        absent == Read(S, Fresh(S),
                       NewReader(StreamOf(Hash(S),
                                          NotDeletedItems(S, call.items)))) IN
    /\ call.st = asUnknown.r.st
    /\ call.pos = asUnknown.r.pos
    /\ \A id \in Ids : DeclaresActive(S, id) =>
         SlotOf(S, call.table, id) = SlotOf(U, asUnknown.table, id)
    /\ \A i \in 1..Count(S) : S.entries[i].tag = Deleted => Empty(call.table[i])
    /\ call.st = None =>
         /\ call.pos = Len(CallStream)
         /\ absent.r.st = None
         /\ absent.table = call.table

\* Reached: an entry with a deleted id was skipped by its size and the
\* active entry after it was read.
C14_Witness ==
  /\ call.op = "Read" /\ call.done /\ call.st = None
  /\ Len(call.items) = 2
  /\ DeclaresDeleted(call.schema, call.items[1].id)
  /\ call.items[1].size > 0
  /\ DeclaresActive(call.schema, call.items[2].id)
  /\ SlotOf(call.schema, call.table, call.items[2].id) = <<MaxValue>>
  /\ call.pos = Len(CallStream)

\* The order of the steps of a deserialization: Start (the prefix and the
\* hash are to be read), FingerprintChecked (the count is to be read),
\* CountRead / ReadingEntry (entries are to be read) and Done.
DecodeOrder ==
  { <<"idle", "prefix">>, <<"prefix", "hash">>, <<"hash", "count">>,
    <<"count", "entries">>, <<"entries", "entries">> }
  \cup { <<p, "done">> : p \in {"prefix", "hash", "count", "entries"} }

\* C15 (decode is terminal on its first error): a deserialization goes
\* through its steps in order, reads one entry per iteration and on success
\* has read exactly as many as the count says; a step that fails ends it
\* with that status, and from then on it reads no byte, sets no entry and
\* keeps the status.
C15_DecodeTerminal ==
  [][/\ rpc' # rpc => <<rpc, rpc'>> \in DecodeOrder
     /\ rstatus' # None => rpc' = "done"
     /\ rstatus # None => UNCHANGED rvars
     /\ rpc = "done" => UNCHANGED rvars
     /\ (rpc = "entries" /\ rvars' # rvars) => (ri < rcount /\ ri' = ri + 1)
     /\ (rpc # "entries" /\ rvars' # rvars) => ri' = ri
     /\ (rpc' = "done" /\ rstatus' = None /\ rhash' = Hash(rschema')) =>
          ri' = rcount'
     /\ (rpc' = "entries") => (rstatus' = None /\ ri' < rcount')]_vars

\* Reached: the first of two entries failed and the deserialization ended
\* without reading the second.
C15_Witness ==
  /\ rpc = "done" /\ rstatus # None
  /\ rcount = 2 /\ ri = 1
  /\ rentry.id # -1

\* p is the beginning of q / a shorter beginning of q.
IsPrefix(p, q) == Len(p) <= Len(q) /\ SubSeq(q, 1, Len(p)) = p
IsStrictPrefix(p, q) == Len(p) < Len(q) /\ IsPrefix(p, q)

\* All the bytes of the encoding of entry i of the table being serialized.
FullEntry(i) ==
  LET id == wschema.entries[i].Id IN
  U64Encode(id) \o <<BinaryByte>> \o U64Encode(ValueSize(id, wtable[i][1])) \o
  ValueEncode(wtable[i][1]) \o Pad(TypeOver(id))

\* C16 (write abort): a step of the serializer that fails ends the
\* serialization with that status; the failing step has added to the sink
\* at most the bytes it wrote before it failed, afterwards nothing of the
\* serializer changes (no byte, no later entry, the same status), and no
\* step ever takes back a byte of the sink.
C16_WriteAbort ==
  [][/\ wstatus' # None => wpc' = "done"
     /\ wstatus # None => UNCHANGED wvars
     /\ IsPrefix(stream, stream')
     /\ (wstatus' # None /\ wstatus = None /\ wpc \in {"prefix", "hash", "count"})
          => stream' = stream
     /\ (wstatus' # None /\ wstatus = None /\ wpc = "entries") =>
          /\ windex' = windex + 1
          /\ IsStrictPrefix(SubSeq(stream', Len(stream) + 1, Len(stream')),
                            FullEntry(windex + 1))]_vars

\* Reached: the first of two set entries failed after its id, prefix byte
\* and size were written; those bytes are in the sink and the second entry
\* was not written.
C16_Witness ==
  /\ wpc = "done" /\ wstatus # None
  /\ Count(wschema) = 2 /\ Present(wtable) = {1, 2}
  /\ windex = 1
  /\ Len(stream) = 1 + 2 * U64Bytes + EntryHeader

\* C17 (read bound): the value decoder of an entry whose size field says N
\* never consumes more than N bytes and the entry operation leaves the
\* source at most N bytes after the size field; a value that needs more
\* bytes than N fails the deserialization with ReadLimitReached.
C17_ReadBound ==
  rentry.region.open =>
    /\ rentry.region.value <= rentry.region.size
    /\ rentry.region.index <= rentry.region.size
    /\ rpos <= rentry.start + EntryHeader + rentry.region.size
    /\ rentry.region.size < Len(ValueEncode(0)) =>
         /\ rstatus = ReadLimitReached
         /\ GetErrorMessage(rstatus) = "Read Limit Reached"

\* Reached: a region of one byte held the first byte of a value; the
\* decoder consumed it and its read of the next byte was refused.
C17_Witness ==
  /\ rentry.region.open
  /\ rentry.region.size = 1 /\ rentry.region.value = 1
  /\ rstatus = ReadLimitReached
  /\ rpos = rentry.start + EntryHeader + 1

\* A sequence / an entry list rearranged by a permutation of its indices.
Permuted(seq, p) == [i \in 1..Len(seq) |-> seq[p[i]]]
PermutedSchema(schema, q) ==
  [schema EXCEPT !.entries = Permuted(schema.entries, q)]

\* The deserialization of the call's stream with its entries rearranged by
\* p into a table whose entry list is rearranged by q.
ReadPermuted(p, q) ==
  Read(PermutedSchema(call.schema, q), Fresh(call.schema),
       NewReader(StreamOf(Hash(call.schema), Permuted(call.items, p))))

\* The active entries of the call's table hold what those of the table t of
\* the rearranged type hold.
SameRecord(t, q) ==
  \A id \in Ids : DeclaresActive(call.schema, id) =>
    SlotOf(call.schema, call.table, id) =
    SlotOf(PermutedSchema(call.schema, q), t, id)

\* The identity permutation of the indices of a sequence.
Identity(seq) == [i \in 1..Len(seq) |-> i]

\* The rearrangements of the call: of the stream's entries alone and of the
\* entry list alone.  Every order of both is a call of its own, so order
\* independence in each of the two, for every call, is order independence
\* in both.
Rearrangements ==
  { <<p, Identity(call.schema.entries)>> :
      p \in Permutations(1..Len(call.items)) }
  \cup { <<Identity(call.items), q>> :
           q \in Permutations(1..Count(call.schema)) }

\* C18 as stated (order independence of decode): for a stream whose entries
\* have pairwise distinct ids, success or failure and the resulting table
\* are the same for every order of the entries in the stream and every
\* order of the entries in the entry list.
C18_OrderIndependent ==
  (call.op = "Read" /\ call.done /\ DistinctIds(call.items)) =>
    \A pq \in Rearrangements :
      LET R == ReadPermuted(pq[1], pq[2]) IN
      /\ (R.r.st = None) <=> (call.st = None)
      /\ SameRecord(R.table, pq[2])

\* C18 as amended: for such a stream success or failure is the same for
\* every order of the stream's entries and of the entry list, and a success
\* gives the same table and consumes the same bytes; for one order of the
\* stream the status, the bytes consumed and the table are the same for
\* every order of the entry list, failures included.
C18_OrderIndependentOnSuccess ==
  (call.op = "Read" /\ call.done /\ DistinctIds(call.items)) =>
    \A pq \in Rearrangements :
      LET R == ReadPermuted(pq[1], pq[2]) IN
      /\ (R.r.st = None) <=> (call.st = None)
      /\ call.st = None =>
           /\ R.r.pos = call.pos
           /\ SameRecord(R.table, pq[2])
      /\ pq[1] = Identity(call.items) =>
           /\ R.r.st = call.st
           /\ R.r.pos = call.pos
           /\ SameRecord(R.table, pq[2])

\* Reached: two entries with different ids were read into a table that
\* declares them in the other order, both values set.
C18_Witness ==
  /\ call.op = "Read" /\ call.done /\ call.st = None
  /\ Len(call.items) = 2 /\ DistinctIds(call.items)
  /\ Count(call.schema) = 2
  /\ call.schema.entries[1].Id = call.items[2].id
  /\ call.schema.entries[2].Id = call.items[1].id
  /\ Present(call.table) = {1, 2}
  /\ call.table[1] # call.table[2]

\* C19 (size covers the write): the bytes a successful serialization has
\* put into the sink are at most the size Size returned for the table.
C19_SizeCoversWrite ==
  Serialized => Len(stream) <= wsize

\* The entries active in the writing and in the reading type of the call
\* hold in the table read what they held in the table written.
StreamAgrees(written, read) ==
  \A id \in Ids :
    DeclaresActive(call.wschema, id) /\ DeclaresActive(call.rschema, id) =>
      SlotOf(call.rschema, read, id) = SlotOf(call.wschema, written, id)

\* C20 (exact consumption): a successful deserialization of a serialized
\* table consumes exactly the bytes the serialization emitted, so two
\* tables serialized one after the other into one stream are deserialized
\* one after the other from it: the first ends where the bytes of the
\* second begin, the second at the end of the stream, and each table read
\* holds what was written, also when the reading type does not declare an
\* entry or declares it deleted.
C20_ExactConsumption ==
  (call.op = "Stream" /\ call.done) =>
    /\ call.st = <<None, None>>
    /\ call.mid > 0 /\ call.mid < Len(call.out)
    /\ call.pos[1] = call.mid
    /\ call.pos[2] = Len(call.out)
    /\ StreamAgrees(call.first, call.table[1])
    /\ StreamAgrees(call.second, call.table[2])
    /\ call.rschema = call.wschema =>
         call.table = <<call.first, call.second>>

\* Reached: the first table's stream held an entry the reading type skips,
\* undeclared or deleted, and the second table was read with its value
\* right after it.
C20_Witness ==
  /\ call.op = "Stream" /\ call.done /\ call.st = <<None, None>>
  /\ \E i \in 1..Count(call.wschema) :
       /\ ~Empty(call.first[i])
       /\ ~DeclaresActive(call.rschema, call.wschema.entries[i].Id)
  /\ Present(call.second) # {}
  /\ Present(call.table[2]) # {}
  /\ call.pos = <<call.mid, Len(call.out)>>

\* The offset in the source of ReadPayload at which entry k begins, and the
\* value an entry leaves in the active entry it is read into: the payload
\* byte, or that of a default-constructed T when the region ends before it.
EntryStart(k) == 2 * U64Bytes + Len(ItemsBytes(SubSeq(call.items, 1, k - 1)))
ValueGiven(it) == IF Len(it.body) >= 2 THEN <<it.body[2]>> ELSE <<0>>

\* The table ReadPayload was handed holds a value.
PriorContent == \E i \in 1..Count(call.schema) : ~Empty(call.prior[i])

\* C21 (no prior content survives a decode): ReadPayload clears every entry
\* before it reads the hash.  After it returns, with success or with any
\* failure, every entry that is not empty is an active entry whose id
\* arrived in an entry that the count covers and that was read, and it
\* holds what the first such entry gave it; when the hash could not be read
\* or differs from that of the table type, or the count could not be read,
\* every entry is empty whatever the table held before the call.
C21_NoPriorContentSurvives ==
  (call.op = "ReadPayload" /\ call.done) =>
    /\ \A i \in 1..Count(call.schema) :
         ~Empty(call.table[i]) =>
           /\ call.schema.entries[i].tag = Active
           /\ call.upto = "table"
           /\ call.hash = Hash(call.schema)
           /\ \E k \in 1..call.count :
                /\ call.items[k].id = call.schema.entries[i].Id
                /\ \A j \in 1..(k - 1) : call.items[j].id # call.items[k].id
                /\ call.items[k].marker = BinaryByte
                /\ call.pos >= EntryStart(k) + U64Bytes
                /\ call.table[i] = ValueGiven(call.items[k])
    /\ (call.upto # "table" \/ call.hash # Hash(call.schema)) =>
         /\ call.st # None
         /\ call.table = Fresh(call.schema)

\* Reached: a table with a value in it was handed to ReadPayload, the hash
\* of the stream was that of another name, and the call failed and left
\* every entry empty.
C21_Witness ==
  /\ call.op = "ReadPayload" /\ call.done
  /\ PriorContent
  /\ call.upto = "table"
  /\ call.hash # Hash(call.schema)
  /\ call.st = ErrorStatusCast(EPROTO)
  /\ call.pos = U64Bytes
  /\ call.table = Fresh(call.schema)
  /\ call.table # call.prior

====
